---- MODULE Spec2Model ----
(***************************************************************************)
(* Storage backends of the DRAKVUF sandbox (drakrun/storage.py) and the    *)
(* worker restore sequence (drakrun/run.py).                               *)
(*                                                                         *)
(* The durable state is the state of the external tools the code drives:   *)
(* the ZFS datasets, snapshots and device nodes, the qcow2 image files and *)
(* the Xen domains.  Every worker vm-1..vm-MaxVms is driven by its own     *)
(* caller; a caller executes run_vm, and in it rollback_vm_storage, one     *)
(* external command at a time, and may be aborted between two commands.    *)
(***************************************************************************)
EXTENDS Integers, Sequences, FiniteSets, TLC

\* Number of worker VMs (max_vms of install.json).
MaxVms == 2

\* range(120) of the device-node poll loop.
PollAttempts == 120

Workers == 1..MaxVms
Vms == 0..MaxVms

\* install_info["storage_backend"]: the two registered kinds and any other string.
Kinds == {"zfs", "qcow2", "other"}
KnownKinds == {"qcow2", "zfs"}

\* Volume contents are "blank" (a freshly created volume), the golden content
\* vm-0 is configured to, and "dirty" (what a sample run writes).
Gold == {"gold"}
\* An overlay image without own data reads its backing file.
Backing == "backing"

VARIABLES
    backend,    \* install_info["storage_backend"]
    zds,        \* zds[v]: dataset <tank>/vm-v exists
    zdata,      \* zdata[v]: content of the volume <tank>/vm-v
    zsnap,      \* zsnap[v]: snapshot <tank>/vm-v@booted exists
    zsnapData,  \* zsnapData[v]: content frozen in <tank>/vm-v@booted
    zdev,       \* zdev[v]: device node /dev/zvol/<tank>/vm-v exists
    img,        \* img[v]: file volumes/vm-v.img exists
    imgData,    \* imgData[v]: data written into volumes/vm-v.img, or Backing
    inst,       \* inst[v]: a Xen domain named vm-v exists
    pc,         \* pc[v]: next command of the caller of run_vm(v)
    polls,      \* polls[i]: checks of the running poll loop that found no node
    last,       \* last[i]: the command the current call finished last, with its result
    prev,       \* prev[i]: the storage state the last rollback left, while untouched
    cancelled,  \* cancelled[i]: the previous call for worker i was aborted
    diskPath    \* the vm_id and the result of the last get_vm_disk_path call

vars == <<backend, zds, zdata, zsnap, zsnapData, zdev, img, imgData, inst,
          pc, polls, last, prev, cancelled, diskPath>>

zfsVars == <<zds, zdata, zsnap, zsnapData, zdev>>
imgVars == <<img, imgData>>
callVars == <<pc, polls, last, cancelled>>

None == "none"

----------------------------------------------------------------------------
\* What the disk of worker i reads as.

\* Content of volumes/vm-v.img: own data, else the backing file vm-0.img.
ImgContent(v) == IF imgData[v] = Backing THEN imgData[0] ELSE imgData[v]

\* The worker's volume exists (dataset <tank>/vm-i, or volumes/vm-i.img).
VolumeExists(i) == IF backend = "zfs" THEN zds[i] ELSE img[i]

VolumeContent(i) == IF backend = "zfs" THEN zdata[i] ELSE ImgContent(i)

\* The base snapshot: <tank>/vm-0@booted, or vm-0.img itself.
BaseExists == IF backend = "zfs" THEN zsnap[0] ELSE img[0]

BaseContent == IF backend = "zfs" THEN zsnapData[0] ELSE imgData[0]

\* Existence and content of everything rollback_vm_storage(i) manages.
StorageState(i) ==
    IF backend = "zfs"
    THEN [exists |-> zds[i], snap |-> zsnap[i],
          content |-> IF zds[i] THEN zdata[i] ELSE None]
    ELSE [exists |-> img[i], snap |-> FALSE,
          content |-> IF img[i] THEN ImgContent(i) ELSE None]

\* Positions at which no call is in progress for a worker.
Resting == {"idle", "done", "failed", "aborted"}

\* Positions inside rollback_vm_storage.
InRollback == {"rb_entry", "zfs_clone", "poll", "zfs_snapshot", "zfs_rollback",
               "qemu_create"}

Quiescent == \A v \in Vms : pc[v] \in Resting /\ ~inst[v]

----------------------------------------------------------------------------
\* Names of the volumes.  A path is the sequence of its components, "/"
\* first when it is absolute.

\* LIB_DIR of run.py: os.path.dirname(os.path.realpath(__file__)), the
\* directory run.py is installed in.
LIB_DIR == <<"/", "opt", "drakrun">>

\* LIB_DIR as the backends use it: the one library directory that holds
\* volumes/, the directory run_vm works in.
Storage_LIB_DIR == LIB_DIR

\* install_info["zfs_tank_name"]
zfs_tank_name == <<"tank">>

\* "vm-{vm_id}"
vm_name(v) == "vm-" \o ToString(v)

\* os.path.join(a, b): an absolute b stands alone.
path_join(a, b) == IF b # <<>> /\ b[1] = "/" THEN b ELSE a \o b

\* vm_zvol of ZfsStorageBackend.rollback_vm_storage: the device node.
vm_zvol(v) ==
    path_join(path_join(<<"/", "dev", "zvol">>, zfs_tank_name), <<vm_name(v)>>)

\* The image file Qcow2StorageBackend.rollback_vm_storage removes and creates.
volume_path(v) ==
    path_join(Storage_LIB_DIR, <<"volumes", vm_name(v) \o ".img">>)

\* The image file run_vm removes.
run_vm_volume_path(v) == path_join(LIB_DIR, <<"volumes", vm_name(v) \o ".img">>)

\* f"phy:/dev/zvol/{zfs_tank_name}/vm-{vm_id},hda,w"
Zfs_get_vm_disk_path(v) ==
    [proto |-> "phy",
     target |-> <<"/", "dev", "zvol">> \o zfs_tank_name \o <<vm_name(v)>>,
     vdev |-> "hda",
     access |-> "w"]

Qcow2_get_vm_disk_path_base(v) ==
    [proto |-> "tap:qcow2",
     target |-> Storage_LIB_DIR \o <<"volumes", "vm-0.img">>,
     vdev |-> "xvda",
     access |-> "w"]

\* f"tap:qcow2:{LIB_DIR}/volumes/vm-{vm_id}.img,xvda,w"
Qcow2_get_vm_disk_path(v) ==
    [proto |-> "tap:qcow2",
     target |-> Storage_LIB_DIR \o <<"volumes", vm_name(v) \o ".img">>,
     vdev |-> "xvda",
     access |-> "w"]

\* The volume rollback_vm_storage(v) of the configured backend works on.
RollbackVolume(v) == IF backend = "zfs" THEN vm_zvol(v) ELSE volume_path(v)

----------------------------------------------------------------------------
Init ==
    /\ backend \in Kinds
    /\ zds = [v \in Vms |-> FALSE]
    /\ zdata = [v \in Vms |-> "blank"]
    /\ zsnap = [v \in Vms |-> FALSE]
    /\ zsnapData = [v \in Vms |-> "blank"]
    /\ zdev = [v \in Vms |-> FALSE]
    /\ img = [v \in Vms |-> FALSE]
    /\ imgData = [v \in Vms |-> "blank"]
    /\ inst = [v \in Vms |-> FALSE]
    /\ pc = [v \in Vms |-> "idle"]
    /\ polls = [v \in Vms |-> 0]
    /\ last = [v \in Vms |-> <<None, None>>]
    /\ prev = [v \in Vms |-> {}]
    /\ cancelled = [v \in Vms |-> FALSE]
    /\ diskPath = {}

----------------------------------------------------------------------------
\* Installation: create vm-0 -> configure vm-0 -> snapshot vm-0.  It is
\* serialized ahead of all worker activity.

\* `zfs destroy -Rfr <tank>/vm-0` then `zfs create -V <size> <tank>/vm-0`.
\* -R takes the snapshots of vm-0 and every clone of them along.  A failed
\* destroy and a failed create are logged and the method returns.
Zfs_initialize_vm0_volume ==
    /\ backend = "zfs"
    /\ Quiescent
    /\ \E destroyOk \in BOOLEAN, createOk \in BOOLEAN :
         LET destroyed == zds[0] /\ destroyOk
             created == (destroyed \/ ~zds[0]) /\ createOk
         IN  /\ zds' = IF destroyed \/ created
                       THEN [v \in Vms |-> v = 0 /\ created]
                       ELSE zds
             /\ zdata' = IF destroyed \/ created
                         THEN [v \in Vms |-> "blank"]
                         ELSE zdata
             /\ zsnap' = IF destroyed THEN [v \in Vms |-> FALSE] ELSE zsnap
             /\ zsnapData' = IF destroyed THEN [v \in Vms |-> "blank"] ELSE zsnapData
             /\ zdev' = IF destroyed THEN [v \in Vms |-> FALSE] ELSE zdev
    /\ prev' = [v \in Vms |-> {}]
    /\ UNCHANGED <<backend, diskPath, imgVars, inst, callVars>>

\* `zfs snapshot <tank>/vm-0@booted`; the command's failure is raised.
Zfs_snapshot_vm0_volume ==
    /\ backend = "zfs"
    /\ Quiescent
    /\ \E ok \in BOOLEAN :
         IF ok /\ zds[0] /\ ~zsnap[0]
         THEN /\ zsnap' = [zsnap EXCEPT ![0] = TRUE]
              /\ zsnapData' = [zsnapData EXCEPT ![0] = zdata[0]]
         ELSE UNCHANGED <<zsnap, zsnapData>>
    /\ prev' = [v \in Vms |-> {}]
    /\ UNCHANGED <<backend, diskPath, zds, zdata, zdev, imgVars, inst, callVars>>

\* `qemu-img create -f qcow2 volumes/vm-0.img <size>`; a failure is logged.
Qcow2_initialize_vm0_volume ==
    /\ backend = "qcow2"
    /\ Quiescent
    /\ \E ok \in BOOLEAN :
         IF ok
         THEN /\ img' = [img EXCEPT ![0] = TRUE]
              /\ imgData' = [imgData EXCEPT ![0] = "blank"]
         ELSE UNCHANGED imgVars
    /\ prev' = [v \in Vms |-> {}]
    /\ UNCHANGED <<backend, diskPath, zfsVars, inst, callVars>>

\* vm-0.img is the backing storage itself: nothing to do.
Qcow2_snapshot_vm0_volume ==
    /\ backend = "qcow2"
    /\ Quiescent
    /\ prev' = [v \in Vms |-> {}]
    /\ UNCHANGED <<backend, diskPath, zfsVars, imgVars, inst, callVars>>

\* vm-0 is booted and configured: its volume receives the golden content.
configure_vm0 ==
    /\ Quiescent
    /\ \E d \in Gold :
         \/ /\ backend = "zfs" /\ zds[0]
            /\ zdata' = [zdata EXCEPT ![0] = d]
            /\ UNCHANGED imgData
         \/ /\ backend = "qcow2" /\ img[0]
            /\ imgData' = [imgData EXCEPT ![0] = d]
            /\ UNCHANGED zdata
    /\ prev' = [v \in Vms |-> {}]
    /\ UNCHANGED <<backend, diskPath, zds, zsnap, zsnapData, zdev, img, inst, callVars>>

----------------------------------------------------------------------------
\* Bookkeeping shared by the steps of a call.

Log(i, entry) == last' = [last EXCEPT ![i] = entry]

Goto(i, where) == pc' = [pc EXCEPT ![i] = where]

\* Why an external command failed: the storage state made it fail, or the
\* tool failed for a reason outside the storage state (I/O error, no space).
Failure(stateOk) == IF stateOk THEN "fail_env" ELSE "fail_state"

\* Where run_vm continues after rollback_vm_storage returned: the restore.
ReturnPc(i) == "xl_restore"

RaisePc_swallowed(i) == "xl_restore"

\* An exception leaving rollback_vm_storage is not caught in run_vm (line 31).
RaisePc(i) == "failed"

\* rollback_vm_storage returns normally.
Return(i, entry) ==
    /\ Log(i, entry)
    /\ Goto(i, ReturnPc(i))
    /\ prev' = [prev EXCEPT ![i] = {StorageState(i)'}]

\* rollback_vm_storage raises.
Raise(i, entry) ==
    /\ Log(i, entry)
    /\ Goto(i, RaisePc(i))
    /\ prev' = [prev EXCEPT ![i] = {}]

----------------------------------------------------------------------------
\* run_vm(vm_id): install.json is read.
run_vm(i) ==
    /\ pc[i] \in Resting
    /\ pc' = [pc EXCEPT ![i] = "xl_destroy"]
    /\ polls' = [polls EXCEPT ![i] = 0]
    /\ last' = [last EXCEPT ![i] = <<None, None>>]
    /\ cancelled' = [cancelled EXCEPT ![i] = (pc[i] = "aborted")]
    /\ UNCHANGED <<backend, diskPath, zfsVars, imgVars, inst, prev>>

----------------------------------------------------------------------------
\* ZfsStorageBackend.rollback_vm_storage

NodePresentPc_snapshot == "zfs_snapshot"

\* The if block, with the clone, the poll and the snapshot, is skipped when
\* the node is there: the next command is the rollback.
NodePresentPc == "zfs_rollback"

\* if not os.path.exists(vm_zvol)
Zfs_rollback_exists(i) ==
    /\ pc[i] = "rb_entry"
    /\ backend = "zfs"
    /\ IF zdev[i]
       THEN Log(i, <<"exists", "present">>) /\ Goto(i, NodePresentPc)
       ELSE Log(i, <<"exists", "absent">>) /\ Goto(i, "zfs_clone")
    /\ UNCHANGED <<backend, diskPath, zfsVars, imgVars, inst, polls, prev, cancelled>>

ClonedData_live == zdata[0]

\* What a new clone reads as: the content frozen in <tank>/vm-0@booted.
ClonedData == zsnapData[0]

CloneSourceExists_volume == zds[0]

\* The source of the clone, <tank>/vm-0@booted, exists.
CloneSourceExists == zsnap[0]

\* zfs clone -p <tank>/vm-0@booted <tank>/vm-<id>: needs the snapshot; with -p
\* an existing target is left as it is and the command succeeds.
Zfs_rollback_clone(i) ==
    /\ pc[i] = "zfs_clone"
    /\ \E ok \in BOOLEAN :
         IF ok /\ CloneSourceExists
         THEN /\ zds' = [zds EXCEPT ![i] = TRUE]
              /\ zdata' = [zdata EXCEPT ![i] = IF zds[i] THEN @ ELSE ClonedData]
              /\ Log(i, <<"zfs_clone", "ok">>)
              /\ Goto(i, "poll")
              /\ UNCHANGED prev
         ELSE /\ Raise(i, <<"zfs_clone", Failure(CloneSourceExists)>>)
              /\ UNCHANGED <<zds, zdata>>
    /\ UNCHANGED <<backend, diskPath, zsnap, zsnapData, zdev, imgVars, inst, polls, cancelled>>

PollSeenPc_continue == "poll"

\* else: break -- the loop is left for the snapshot once the node is seen.
PollSeenPc == "zfs_snapshot"

\* for _ in range(120): one os.path.exists check; sleep when the node is absent.
Zfs_rollback_poll(i) ==
    /\ pc[i] = "poll"
    /\ polls[i] < PollAttempts
    /\ IF zdev[i]
       THEN /\ Log(i, <<"poll", "seen">>)
            /\ Goto(i, PollSeenPc)
            /\ polls' = [polls EXCEPT ![i] = 0]
       ELSE /\ polls' = [polls EXCEPT ![i] = @ + 1]
            /\ UNCHANGED <<last, pc>>
    /\ UNCHANGED <<backend, diskPath, zfsVars, imgVars, inst, prev, cancelled>>

\* The loop's else branch: logging.error(...) and return.
PollTimeout(i) == Return(i, <<"poll", "timeout">>)

\* The poll loop has used up its attempts.
Zfs_rollback_timeout(i) ==
    /\ pc[i] = "poll"
    /\ polls[i] = PollAttempts
    /\ polls' = [polls EXCEPT ![i] = 0]
    /\ UNCHANGED <<backend, diskPath, zfsVars, imgVars, inst, cancelled>>
    /\ PollTimeout(i)

\* What zfs snapshot freezes: the current content of the worker's volume.
SnapshotData(i) == zdata[i]

\* zfs snapshot <tank>/vm-<id>@booted
Zfs_rollback_snapshot(i) ==
    /\ pc[i] = "zfs_snapshot"
    /\ \E ok \in BOOLEAN :
         IF ok /\ zds[i] /\ ~zsnap[i]
         THEN /\ zsnap' = [zsnap EXCEPT ![i] = TRUE]
              /\ zsnapData' = [zsnapData EXCEPT ![i] = SnapshotData(i)]
              /\ Log(i, <<"zfs_snapshot", "ok">>)
              /\ Goto(i, "zfs_rollback")
              /\ UNCHANGED prev
         ELSE /\ Raise(i, <<"zfs_snapshot", Failure(zds[i] /\ ~zsnap[i])>>)
              /\ UNCHANGED <<zsnap, zsnapData>>
    /\ UNCHANGED <<backend, diskPath, zds, zdata, zdev, imgVars, inst, polls, cancelled>>

RolledBackData_kept(i) == zdata[i]

\* What zfs rollback leaves in the volume: the content of its snapshot.
RolledBackData(i) == zsnapData[i]

\* zfs rollback <tank>/vm-<id>@booted
Zfs_rollback_rollback(i) ==
    /\ pc[i] = "zfs_rollback"
    /\ UNCHANGED <<backend, diskPath, zds, zsnap, zsnapData, zdev, imgVars, inst, polls, cancelled>>
    /\ \E ok \in BOOLEAN :
         IF ok /\ zds[i] /\ zsnap[i]
         THEN /\ zdata' = [zdata EXCEPT ![i] = RolledBackData(i)]
              /\ Return(i, <<"zfs_rollback", "ok">>)
         ELSE /\ Raise(i, <<"zfs_rollback", Failure(zds[i] /\ zsnap[i])>>)
              /\ UNCHANGED zdata

\* The kernel creates the device node some time after the dataset exists.
device_node_appears(i) ==
    /\ zds[i]
    /\ ~zdev[i]
    /\ zdev' = [zdev EXCEPT ![i] = TRUE]
    /\ UNCHANGED <<backend, diskPath, zds, zdata, zsnap, zsnapData, imgVars, inst, callVars, prev>>

----------------------------------------------------------------------------
\* Qcow2StorageBackend.rollback_vm_storage

RollbackImage_backing(i) == 0

\* The file the image backend removes and creates: volumes/vm-<vm_id>.img.
RollbackImage(i) == i

\* os.unlink(volumes/vm-<id>.img), FileNotFoundError tolerated.
Qcow2_rollback_unlink(i) ==
    /\ pc[i] = "rb_entry"
    /\ backend = "qcow2"
    /\ LET t == RollbackImage(i)
       IN  /\ img' = [img EXCEPT ![t] = FALSE]
           /\ imgData' = [imgData EXCEPT ![t] = "blank"]
           /\ Log(i, <<"unlink", IF img[t] THEN "ok" ELSE "absent">>)
    /\ Goto(i, "qemu_create")
    /\ UNCHANGED <<backend, diskPath, zfsVars, inst, polls, prev, cancelled>>

\* qemu-img create -f qcow2 -o backing_file=vm-0.img volumes/vm-<id>.img:
\* the size is taken from the backing file, which must exist.
Qcow2_rollback_create(i) ==
    /\ pc[i] = "qemu_create"
    /\ UNCHANGED <<backend, diskPath, zfsVars, inst, polls, cancelled>>
    /\ \E ok \in BOOLEAN :
         IF ok /\ img[0]
         THEN /\ img' = [img EXCEPT ![RollbackImage(i)] = TRUE]
              /\ imgData' = [imgData EXCEPT ![RollbackImage(i)] = Backing]
              /\ Return(i, <<"qemu_create", "ok">>)
         ELSE /\ UNCHANGED imgVars
              /\ Raise(i, <<"qemu_create", Failure(img[0])>>)

----------------------------------------------------------------------------
\* run_vm

\* The disk the domain configuration of worker i names is there.
DiskPresent(i) == IF backend = "zfs" THEN zds[i] /\ zdev[i] ELSE img[i]

DestroyFailedPc_raise == "failed"

\* except subprocess.CalledProcessError: pass
DestroyFailedPc == "unlink"

\* xl destroy vm-<id>
run_vm_xl_destroy(i) ==
    /\ pc[i] = "xl_destroy"
    /\ \E ok \in BOOLEAN :
         IF ok /\ inst[i]
         THEN /\ inst' = [inst EXCEPT ![i] = FALSE]
              /\ Log(i, <<"xl_destroy", "ok">>)
              /\ Goto(i, "unlink")
         ELSE /\ UNCHANGED inst
              /\ Log(i, <<"xl_destroy", IF inst[i] THEN "fail_env" ELSE "no_instance">>)
              /\ Goto(i, DestroyFailedPc)
    /\ UNCHANGED <<backend, diskPath, zfsVars, imgVars, polls, prev, cancelled>>

UnlinkTarget_fixed(i) == 1

\* The file run_vm removes: volumes/vm-<vm_id>.img.
UnlinkTarget(i) == i

\* os.unlink(volumes/vm-<id>.img), FileNotFoundError tolerated.
run_vm_unlink(i) ==
    /\ pc[i] = "unlink"
    /\ LET t == UnlinkTarget(i)
       IN  /\ img' = [img EXCEPT ![t] = FALSE]
           /\ imgData' = [imgData EXCEPT ![t] = "blank"]
           /\ prev' = [prev EXCEPT ![t] = IF img[t] THEN {} ELSE @]
           /\ Log(i, <<"unlink", IF img[t] THEN "ok" ELSE "absent">>)
    /\ Goto(i, "get_backend")
    /\ UNCHANGED <<backend, diskPath, zfsVars, inst, polls, cancelled>>

\* get_storage_backend(install_info): backends[backend_name], a KeyError for
\* a name that is not registered, then the constructor and its check_tools.
\* ZfsStorageBackend.check_tools logs a failing `zfs -?` and returns;
\* Qcow2StorageBackend.check_tools re-raises.
run_vm_get_storage_backend(i) ==
    /\ pc[i] = "get_backend"
    /\ \E toolOk \in BOOLEAN :
         IF backend \notin KnownKinds
         THEN Log(i, <<"get_storage_backend", "KeyError">>) /\ Goto(i, "failed")
         ELSE IF toolOk \/ backend = "zfs"
         THEN /\ Log(i, <<"get_storage_backend", IF toolOk THEN "ok" ELSE "tool_failed">>)
              /\ Goto(i, "rb_entry")
         ELSE Log(i, <<"get_storage_backend", "fail_env">>) /\ Goto(i, "failed")
    /\ UNCHANGED <<backend, diskPath, zfsVars, imgVars, inst, polls, prev, cancelled>>

RestoreFailedPc_retry == "rb_entry"

\* Where run_vm continues when xl restore failed: the except block.
RestoreFailedPc == "read_log"

\* xl -vvv restore configs/vm-<id>.cfg volumes/snapshot.sav
run_vm_xl_restore(i) ==
    /\ pc[i] = "xl_restore"
    /\ \E ok \in BOOLEAN :
         IF ok /\ ~inst[i] /\ DiskPresent(i)
         THEN /\ inst' = [inst EXCEPT ![i] = TRUE]
              /\ Log(i, <<"xl_restore", "ok">>)
              /\ Goto(i, "attach")
         ELSE /\ UNCHANGED inst
              /\ Log(i, <<"xl_restore", Failure(~inst[i] /\ DiskPresent(i))>>)
              /\ Goto(i, RestoreFailedPc)
    /\ UNCHANGED <<backend, diskPath, zfsVars, imgVars, polls, prev, cancelled>>

\* except CalledProcessError: logging.exception(...), then the qemu-dm log
\* is opened and logged; nothing is re-raised, an unreadable log raises.
run_vm_read_log(i) ==
    /\ pc[i] = "read_log"
    /\ \E readable \in BOOLEAN :
         IF readable
         THEN Log(i, <<"read_log", "ok">>) /\ Goto(i, "attach")
         ELSE Log(i, <<"read_log", "FileNotFoundError">>) /\ Goto(i, "failed")
    /\ UNCHANGED <<backend, diskPath, zfsVars, imgVars, inst, polls, prev, cancelled>>

\* xl qemu-monitor-command vm-<id> "change ide-5632 .../malwar.iso"
run_vm_qemu_monitor_command(i) ==
    /\ pc[i] = "attach"
    /\ \E ok \in BOOLEAN :
         IF ok /\ inst[i]
         THEN Log(i, <<"attach", "ok">>) /\ Goto(i, "done")
         ELSE Log(i, <<"attach", Failure(inst[i])>>) /\ Goto(i, "failed")
    /\ UNCHANGED <<backend, diskPath, zfsVars, imgVars, inst, polls, prev, cancelled>>

----------------------------------------------------------------------------
\* Environment of a worker.

\* The running domain vm-i writes to its disk.
vm_write(i) ==
    /\ inst[i]
    /\ DiskPresent(i)
    /\ \/ /\ backend = "zfs"
          /\ zdata' = [zdata EXCEPT ![i] = "dirty"]
          /\ UNCHANGED imgData
       \/ /\ backend = "qcow2"
          /\ imgData' = [imgData EXCEPT ![i] = "dirty"]
          /\ UNCHANGED zdata
    /\ prev' = [prev EXCEPT ![i] = {}]
    /\ UNCHANGED <<backend, diskPath, zds, zsnap, zsnapData, zdev, img, inst, callVars>>

\* The caller of worker i is aborted between two commands.
abort(i) ==
    /\ pc[i] \notin Resting
    /\ pc' = [pc EXCEPT ![i] = "aborted"]
    /\ prev' = [prev EXCEPT ![i] = {}]
    /\ polls' = [polls EXCEPT ![i] = 0]
    /\ UNCHANGED <<backend, diskPath, zfsVars, imgVars, inst, last, cancelled>>

\* get_vm_disk_path(v) of the configured backend is called, for the domain
\* configuration of vm-v.
get_vm_disk_path(v) ==
    /\ backend \in KnownKinds
    /\ diskPath' = {[vm |-> v,
                     descriptor |-> IF backend = "zfs"
                                    THEN Zfs_get_vm_disk_path(v)
                                    ELSE Qcow2_get_vm_disk_path(v)]}
    /\ UNCHANGED <<backend, zfsVars, imgVars, inst, callVars, prev>>

----------------------------------------------------------------------------
\* All steps a caller takes for worker i.
WorkerStep(i) ==
    \/ run_vm(i)
    \/ Zfs_rollback_exists(i)
    \/ Zfs_rollback_clone(i)
    \/ Zfs_rollback_poll(i)
    \/ Zfs_rollback_timeout(i)
    \/ Zfs_rollback_snapshot(i)
    \/ Zfs_rollback_rollback(i)
    \/ Qcow2_rollback_unlink(i)
    \/ Qcow2_rollback_create(i)
    \/ run_vm_xl_destroy(i)
    \/ run_vm_unlink(i)
    \/ run_vm_get_storage_backend(i)
    \/ run_vm_xl_restore(i)
    \/ run_vm_read_log(i)
    \/ run_vm_qemu_monitor_command(i)

Install ==
    \/ Zfs_initialize_vm0_volume
    \/ Zfs_snapshot_vm0_volume
    \/ Qcow2_initialize_vm0_volume
    \/ Qcow2_snapshot_vm0_volume
    \/ configure_vm0

Next ==
    \/ Install
    \/ \E i \in Workers : WorkerStep(i)
    \/ \E i \in Workers : device_node_appears(i)
    \/ \E i \in Workers : vm_write(i)
    \/ \E i \in Workers : abort(i)

Spec == Init /\ [][Next]_vars

\* The operations that take a vm_id, called with any id: run_vm by a caller
\* that passes 0, the id of the base VM (nothing in run_vm or in the backends
\* tells that id from a worker's), and get_vm_disk_path for every VM.
NextGolden ==
    \/ Install
    \/ \E v \in Vms : get_vm_disk_path(v)
    \/ WorkerStep(0)
    \/ device_node_appears(0)
    \/ vm_write(0)
    \/ abort(0)

SpecGolden == Init /\ [][NextGolden]_vars

----------------------------------------------------------------------------
\* Vocabulary of the properties.

\* The caller of worker i takes a step.
StepOf(i) == pc'[i] # pc[i] \/ polls'[i] # polls[i] \/ last'[i] # last[i]

\* rollback_vm_storage(i) returns normally / a command of it fails.
RollbackReturns(i) == pc[i] \in InRollback /\ pc'[i] = "xl_restore"

RollbackCommandFails(i) ==
    /\ pc[i] \in InRollback
    /\ last'[i] # last[i]
    /\ last'[i][2] \in {"fail_env", "fail_state"}

\* The worker's volume exists and reads as the base snapshot.
Pristine(i) == VolumeExists(i) /\ VolumeContent(i) = BaseContent

\* Everything that belongs to worker j.
WorkerResources(j) ==
    <<zds[j], zdata[j], zsnap[j], zsnapData[j], zdev[j], img[j], imgData[j], inst[j]>>

\* The vm-0 volume and the base snapshot: <tank>/vm-0, <tank>/vm-0@booted,
\* volumes/vm-0.img.
BaseResources == <<zds[0], zdata[0], zsnap[0], zsnapData[0], img[0], imgData[0]>>

\* Position of a command in run_vm, and the step of run_vm it belongs to.
Rank(p) ==
    CASE p = "xl_destroy" -> 1
      [] p = "unlink" -> 2
      [] p = "get_backend" -> 3
      [] p = "rb_entry" -> 4
      [] p \in {"zfs_clone", "qemu_create"} -> 5
      [] p = "poll" -> 6
      [] p = "zfs_snapshot" -> 7
      [] p = "zfs_rollback" -> 8
      [] p = "xl_restore" -> 9
      [] p = "read_log" -> 10
      [] p = "attach" -> 11
      [] OTHER -> 12

Stage(p) ==
    CASE p = "xl_destroy" -> 1
      [] p = "unlink" -> 2
      [] p \in InRollback \cup {"get_backend"} -> 3
      [] p \in {"xl_restore", "read_log"} -> 4
      [] p = "attach" -> 5
      [] OTHER -> 6

----------------------------------------------------------------------------
\* C1: whenever rollback_vm_storage(i) returns without error, whatever the
\* worker's volume was before, the volume exists and its content equals the
\* content of the base snapshot (vm-0@booted, or vm-0.img).
C1_RollbackPristine ==
    [][\A i \in Workers : RollbackReturns(i) => Pristine(i)']_vars

\* A rollback of the block backend has just reverted a volume to golden content.
C1_Witness ==
    /\ backend = "zfs"
    /\ pc[1] = "xl_restore"
    /\ last[1] = <<"zfs_rollback", "ok">>
    /\ zdata[1] = "gold"
    /\ BaseContent = "gold"

\* C2: calling rollback_vm_storage(i) twice in a row with no write to the
\* worker volume in between: the second call succeeds whenever the first did,
\* and leaves the storage state (volume content, existence of the dataset,
\* snapshot or image file) the first call left.
C2_Idempotent ==
    [][\A i \in Workers :
         ( /\ prev[i] # {}
           /\ pc[i] \in InRollback
           /\ pc'[i] \in {"xl_restore", "failed"}
           /\ last'[i][2] # "fail_env" )
         => (pc'[i] = "xl_restore" /\ StorageState(i)' \in prev[i])]_vars

\* C3: no step taken for worker i changes the volume, dataset, snapshot,
\* device node, image file or domain of another worker j.
C3_Isolation ==
    [][\A i \in Workers : StepOf(i) =>
         \A j \in Workers \ {i} : WorkerResources(j)' = WorkerResources(j)]_vars

\* Two workers are inside rollback_vm_storage at once, both with a volume.
C3_Witness ==
    /\ pc[1] \in InRollback
    /\ pc[2] \in InRollback
    /\ VolumeExists(1)
    /\ VolumeExists(2)

\* C4: after a call for worker i was aborted, a following rollback for i that
\* meets no tool failure (the base snapshot exists, no command fails for an
\* outside reason, the node is seen) succeeds and leaves the volume pristine.
C4_CancellationSafe ==
    [][\A i \in Workers :
         ( /\ cancelled[i]
           /\ BaseExists
           /\ pc[i] \in InRollback
           /\ pc'[i] \in {"xl_restore", "failed"}
           /\ last'[i][2] \notin {"fail_env", "timeout"} )
         => (pc'[i] = "xl_restore" /\ Pristine(i)')]_vars

\* C5: the poll loop finds the node absent at most PollAttempts times; the
\* step after the last attempt leaves the loop, and so does a check that
\* sees the node.
C5_BoundedPoll ==
    [][\A i \in Workers : pc[i] = "poll" =>
         /\ polls[i] <= PollAttempts
         /\ polls'[i] <= PollAttempts
         /\ (StepOf(i) /\ polls[i] = PollAttempts => pc'[i] # "poll")
         /\ (StepOf(i) /\ zdev[i] => pc'[i] # "poll")]_vars

\* The loop has used up every attempt without seeing the node.
C5_Witness == \E i \in Workers : pc[i] = "poll" /\ polls[i] = PollAttempts /\ ~zdev[i]

\* C6: when the poll gives up, rollback_vm_storage ends in an error and
\* run_vm does not go on to the restore.
C6_DeviceNotReadyFatal ==
    \A i \in Workers : last[i] = <<"poll", "timeout">> => pc[i] \in {"failed", "aborted"}

\* C7: within a run the commands follow the order destroy, unlink, rollback,
\* restore, attach: a run starts with the destroy, no step is skipped, none
\* is entered a second time, and the run completes only after the attach.
C7_StepOrder ==
    [][\A i \in Workers : pc'[i] # pc[i] =>
         /\ (pc[i] \in Resting => pc'[i] = "xl_destroy")
         /\ (pc'[i] = "done" => pc[i] = "attach")
         /\ (pc[i] \notin Resting /\ pc'[i] \notin Resting =>
                /\ Rank(pc'[i]) > Rank(pc[i])
                /\ Stage(pc'[i]) <= Stage(pc[i]) + 1)]_vars

\* A run went through every step and completed.
C7_Witness == \E i \in Workers : pc[i] = "done" /\ last[i] = <<"attach", "ok">> /\ inst[i]

\* C8: the media attach is started only after a successful restore; a failed
\* restore ends the run in failure.
C8_RestoreFailureFatal ==
    \A i \in Workers : pc[i] = "attach" => last[i] = <<"xl_restore", "ok">>

\* C9: a command of rollback_vm_storage that fails inside run_vm ends the run
\* in failure at once, and a failed run executes nothing more: no second
\* rollback, no restore, no attach.
C9_RollbackErrorFatal ==
    [][\A i \in Workers :
         /\ (RollbackCommandFails(i) => pc'[i] = "failed")
         /\ (pc[i] = "failed" => pc'[i] \in {"failed", "xl_destroy"})]_vars

\* The image backend's create failed for want of vm-0.img and the run failed.
C9_Witness ==
    \E i \in Workers : pc[i] = "failed" /\ last[i] = <<"qemu_create", "fail_state">>

\* C10: a destroy that fails for want of a domain vm-i raises nothing, the
\* run goes on to the stale-image removal; a missing image file raises
\* nothing either, the run goes on to the backend and its rollback.
C10_StaleTolerance ==
    [][\A i \in Workers : (StepOf(i) /\ pc'[i] # "aborted") =>
         /\ (pc[i] = "xl_destroy" /\ ~inst[i] => pc'[i] = "unlink")
         /\ (pc[i] = "unlink" /\ ~img[i] => pc'[i] = "get_backend")
         /\ (pc[i] = "get_backend" /\ last'[i][2] \in {"ok", "tool_failed"}
                => pc'[i] = "rb_entry")]_vars

\* The destroy found no domain and the run is at the stale-image removal.
C10_Witness ==
    \E i \in Workers :
        pc[i] = "unlink" /\ last[i] = <<"xl_destroy", "no_instance">> /\ ~img[i]

\* C11: run_vm with vm_id = 0 does not touch the volume of the base VM: no
\* step of it removes, recreates or rolls back vm-0 (volumes/vm-0.img is not
\* unlinked) and rollback_vm_storage(0) is not entered.
C11_GoldenNeverRolledBack ==
    [][StepOf(0) =>
         /\ BaseResources' = BaseResources
         /\ pc'[0] \notin InRollback]_vars

\* C12: no step of run_vm(i) or rollback_vm_storage(i) for a worker i >= 1,
\* succeeding or failing, on either backend, changes the existence or the
\* content of <tank>/vm-0, <tank>/vm-0@booted or volumes/vm-0.img.
C12_BaseFrame ==
    [][\A i \in Workers : StepOf(i) => BaseResources' = BaseResources]_vars

\* Over a configured base, one block rollback succeeded and another failed.
C12_Witness ==
    \E i \in Workers, j \in Workers :
        /\ last[i] = <<"zfs_rollback", "ok">>
        /\ last[j] = <<"zfs_rollback", "fail_env">>
        /\ zsnap[0] /\ zsnapData[0] = "gold" /\ zdata[0] = "gold"

\* C13: rollback_vm_storage(i) for a worker returns without error only when
\* the base snapshot exists (vm-0 was initialized and snapshot_vm0_volume
\* completed; for the image backend vm-0.img exists); a rollback attempted
\* without it ends in an error of the command that needs it.
C13_SnapshotBeforeRollback ==
    [][\A i \in Workers :
         (pc[i] \in InRollback /\ pc'[i] \in {"xl_restore", "failed"}) =>
            /\ (pc'[i] = "xl_restore" => BaseExists /\ BaseExists')
            /\ (~BaseExists => pc'[i] = "failed" /\ last'[i][2] = "fail_state")]_vars

\* vm-0 is initialized but not snapshotted yet, and a clone was refused.
C13_Witness ==
    \E i \in Workers :
        /\ pc[i] = "failed"
        /\ last[i] = <<"zfs_clone", "fail_state">>
        /\ zds[0] /\ ~zsnap[0]

\* C14: get_storage_backend raises for a backend kind that is not registered
\* and for no other; with such a kind run_vm is rejected before any command
\* for the worker (xl destroy, the unlink of its image file) was executed.
C14_UnknownKindFailFast ==
    \A i \in Workers :
        /\ (last[i][1] = "get_storage_backend" =>
               (last[i][2] = "KeyError" <=> backend \notin KnownKinds))
        /\ (backend \notin KnownKinds =>
               last[i][1] \in {None, "get_storage_backend"})

\* C15: when the tool check of a backend's constructor fails (`zfs -?`,
\* `qemu-img --version`), the construction raises: no backend results and
\* no operation of it, such as the rollback, is started.
C15_ToolUnavailableFatal ==
    [][\A i \in Workers :
         ( /\ pc[i] = "get_backend"
           /\ last'[i][1] = "get_storage_backend"
           /\ last'[i][2] # "ok" )
         => pc'[i] = "failed"]_vars

\* C16: initialize_vm0_volume of the block backend returns normally only
\* with a vm-0 volume that it has just created, any prior one (with its
\* snapshot) destroyed: a failed destroy or a failed create does not end in
\* a normal return.  Every step of the method is a normal return.
C16_InitializeSurfacesFailures ==
    [][Zfs_initialize_vm0_volume =>
         zds'[0] /\ zdata'[0] = "blank" /\ ~zsnap'[0]]_vars

\* C17: when xl restore failed and the qemu-dm log of the worker cannot be
\* read, the error run_vm ends with is the failure of the restore, not the
\* failure to read the log.
C17_LogCaptureNoMask ==
    [][\A i \in Workers :
         (pc[i] = "read_log" /\ pc'[i] = "failed") => last'[i][1] = "xl_restore"]_vars

\* C18 (as stated): once the device node is confirmed present, by the poll
\* after the clone or by the check at entry, the next command is the
\* snapshot of the worker's dataset, and the rollback is only ever executed
\* right after that snapshot.
C18_SnapshotThenRollback ==
    [][\A i \in Workers :
         /\ ( /\ last'[i] # last[i]
              /\ last'[i] \in {<<"exists", "present">>, <<"poll", "seen">>} )
            => pc'[i] = "zfs_snapshot"
         /\ (pc'[i] = "zfs_rollback" /\ pc[i] # "zfs_rollback")
            => (pc[i] = "zfs_snapshot" /\ last'[i] = <<"zfs_snapshot", "ok">>)]_vars

\* C18 (amended): the snapshot is taken only in a call that cloned, right
\* after its poll saw the node, and is followed by the rollback; a call that
\* finds the node present at entry goes to the rollback at once, with no
\* snapshot; once the node is confirmed the call returns normally only from
\* a successful rollback.
C18_SnapshotOnlyAfterClone ==
    [][\A i \in Workers :
         /\ (last'[i] # last[i] /\ last'[i] = <<"poll", "seen">>)
            => pc'[i] = "zfs_snapshot"
         /\ (last'[i] # last[i] /\ last'[i] = <<"exists", "present">>)
            => pc'[i] = "zfs_rollback"
         /\ (pc'[i] = "zfs_snapshot" /\ pc[i] # "zfs_snapshot")
            => (pc[i] = "poll" /\ zdev[i])
         /\ (pc'[i] = "zfs_rollback" /\ pc[i] # "zfs_rollback")
            => \/ pc[i] = "zfs_snapshot" /\ last'[i] = <<"zfs_snapshot", "ok">>
               \/ pc[i] = "rb_entry" /\ zdev[i]
         /\ (pc[i] \in {"zfs_snapshot", "zfs_rollback"} /\ pc'[i] = "xl_restore")
            => last'[i] = <<"zfs_rollback", "ok">>]_vars

\* The node is there from a prior run that wrote to the volume: the call is
\* at the rollback without having taken a snapshot.
C18_Witness ==
    \E i \in Workers :
        /\ pc[i] = "zfs_rollback"
        /\ last[i] = <<"exists", "present">>
        /\ zsnap[i]
        /\ zdata[i] = "dirty"

\* C19: the worker snapshot <tank>/vm-i@booted is only ever taken by the
\* snapshot command that follows the clone and the poll, from a volume that
\* still reads as the base snapshot; so wherever it exists its content
\* equals that of <tank>/vm-0@booted.
C19_WorkerSnapshotPristine ==
    [][\A i \in Workers :
         /\ (zsnap'[i] /\ ~zsnap[i]) =>
               (pc[i] = "zfs_snapshot" /\ zsnap[0] /\ zdata[i] = zsnapData[0])
         /\ zsnap'[i] =>
               (zds'[i] /\ zsnap'[0] /\ zsnapData'[i] = zsnapData'[0])]_vars

\* A run has written to the volume of a worker whose snapshot was taken
\* from the configured base.
C19_Witness ==
    \E i \in Workers :
        /\ zsnap[i] /\ zsnapData[i] = "gold"
        /\ zdata[i] = "dirty"
        /\ pc[i] \in Resting

====
